---- MODULE Spec2Model ----
(***************************************************************************)
(* The to-do REST service (todo_server/todo_server.ts) and the MCP adapter *)
(* in front of it (todo_mcp_server/index.ts).                              *)
(*                                                                         *)
(* The store is the SQLite table `todos`.  Every SQL statement is one      *)
(* atomic step (one connection, SQLite serialises statements).  A handler  *)
(* that awaits two statements (PUT: UPDATE, then SELECT) is two steps, and *)
(* any other request may be served between them.                           *)
(*                                                                         *)
(* JSON values are tagged records so that null, a string, a boolean and a  *)
(* number are different values; an absent (undefined) field is a field     *)
(* that is not in the DOMAIN of the record.  Text is a sequence of         *)
(* one-character strings.                                                  *)
(***************************************************************************)
EXTENDS Integers, Sequences, FiniteSets, TLC

(* ---------------------------- bounds ----------------------------------- *)
\* number of rows the model ever inserts
MaxSeq == 2
\* number of PUT handlers that may be suspended between their two queries
MaxInflight == 1

(* ---------------------------- JSON values ------------------------------ *)
JNull == [t |-> "null"]
JStr(s) == [t |-> "string", v |-> s]
JBool(b) == [t |-> "boolean", v |-> b]
JNum(n) == [t |-> "number", v |-> n]

\* an object without fields: {} in JavaScript
EmptyObj == <<>>

Has(obj, f) == f \in DOMAIN obj

\* obj[f], or undefined (modelled as JNull for the uses below, which do not
\* tell undefined from null: ??, COALESCE binding, truthiness)
Field(obj, f) == IF Has(obj, f) THEN obj[f] ELSE JNull

\* JavaScript truthiness of a JSON value: !v is true of null, "", false, 0
Falsy(v) ==
  \/ v.t = "null"
  \/ v.t = "string" /\ v.v = <<>>
  \/ v.t = "boolean" /\ v.v = FALSE
  \/ v.t = "number" /\ v.v = 0

\* a ?? b
Coalesce(a, b) == IF a.t = "null" THEN b ELSE a

(* ---------------------------- inputs ----------------------------------- *)
\* task texts the clients send: a plain one and one holding a double quote
TaskTexts == { <<"a">>, <<"b", "\"">> }

\* ids the clients ask for: every id the table can hold
ReqIds == 1 .. MaxSeq

\* bodies of POST /todos sent by a direct REST client
PostBodies ==
  { EmptyObj, [completed |-> JBool(TRUE)], [task |-> JStr(<<>>)] }
  \cup { [task |-> JStr(s)] : s \in TaskTexts }
  \cup { [task |-> JStr(s), completed |-> JBool(TRUE)] : s \in TaskTexts }

\* bodies of PUT /todos/:id sent by a direct REST client
PutBodies ==
  { EmptyObj, [task |-> JNull], [task |-> JNull, completed |-> JBool(TRUE)] }
  \cup { [task |-> JStr(s)] : s \in TaskTexts }
  \cup { [completed |-> JBool(c)] : c \in BOOLEAN }
  \cup { [task |-> JStr(s), completed |-> JBool(FALSE)] : s \in TaskTexts }

(* ---------------------------- state ------------------------------------ *)
VARIABLES
  todos,     \* the table: id -> [task, completed, created_at]
  seq,       \* sqlite_sequence of the table (AUTOINCREMENT): largest id ever used
  now,       \* the clock CURRENT_TIMESTAMP reads
  dbOpen,    \* the process-wide connection is open
  pending,   \* PUT handlers suspended between the UPDATE and the re-read
  last,      \* the handler step served last: request, response, adapter result
  assigned,  \* history: ids returned by a successful create
  deleted    \* history: ids a DELETE removed

vars == <<todos, seq, now, dbOpen, pending, last, assigned, deleted>>


(* ---------------------------- SQLite ----------------------------------- *)
\* sqlite3 binds a JavaScript value to a statement parameter: undefined and
\* null bind NULL, a boolean binds the integer 1 or 0, text binds text
BindParam(v) ==
  IF v.t = "boolean" THEN JNum(IF v.v THEN 1 ELSE 0) ELSE v

\* SQL COALESCE(a, b)
SqlCoalesce(a, b) == IF a.t = "null" THEN b ELSE a

Max(S) == CHOOSE m \in S : \A n \in S : n <= m

\* the rowid a plain INTEGER PRIMARY KEY column would give: one more than
\* the largest rowid now in the table
NextRowidNoAutoincrement(table, sequence) ==
  Max(DOMAIN table \cup {0}) + 1

\* id INTEGER PRIMARY KEY AUTOINCREMENT: one more than the largest rowid the
\* table has ever held (sqlite_sequence), also after that row is deleted
NextRowid(table, sequence) ==
  Max(DOMAIN table \cup {sequence}) + 1

\* created_at as SQLite's CURRENT_TIMESTAMP writes it
SqlTimestamp(t) == [fmt |-> "sql", t |-> t]

\* created_at as new Date().toISOString() writes it
IsoTimestamp(t) == [fmt |-> "iso", t |-> t]

\* INSERT INTO todos (task, completed) VALUES (?, ?)
InsertedRow(data, t) ==
  [ task |-> BindParam(Field(data, "task")),
    completed |-> BindParam(Coalesce(Field(data, "completed"), JBool(FALSE))),
    created_at |-> SqlTimestamp(t) ]

\* a row as db.get / db.all return it: the columns as stored
RowJson(table, id) ==
  [ id |-> JNum(id),
    task |-> table[id].task,
    completed |-> table[id].completed,
    created_at |-> table[id].created_at ]

\* the Todo createTodo returns: built from the request, not read back
CreatedTodo(id, data, t) ==
  [ id |-> JNum(id),
    task |-> Field(data, "task"),
    completed |-> Coalesce(Field(data, "completed"), JBool(FALSE)),
    created_at |-> IsoTimestamp(t) ]

\* an UPDATE that overwrites both columns with its parameters
UpdatedRowNoCoalesce(row, data) ==
  [ row EXCEPT
      !.task = BindParam(Field(data, "task")),
      !.completed = BindParam(Field(data, "completed")) ]

\* UPDATE todos set task = COALESCE(?, task), completed = COALESCE(?, completed)
UpdatedRow(row, data) ==
  [ row EXCEPT
      !.task = SqlCoalesce(BindParam(Field(data, "task")), @),
      !.completed = SqlCoalesce(BindParam(Field(data, "completed")), @) ]

\* an UPDATE without its WHERE clause
UpdateTableAllRows(table, id, data) ==
  [ i \in DOMAIN table |-> UpdatedRow(table[i], data) ]

\* ... WHERE id = ?
UpdateTable(table, id, data) ==
  [ i \in DOMAIN table |-> IF i = id THEN UpdatedRow(table[i], data) ELSE table[i] ]

\* a DELETE that also removes the rows above the id
DeleteTableFrom(table, id) ==
  [ i \in { j \in DOMAIN table : j < id } |-> table[i] ]

\* DELETE FROM todos WHERE id = ?
DeleteTable(table, id) ==
  [ i \in DOMAIN table \ {id} |-> table[i] ]

\* result.changes of an UPDATE or DELETE ... WHERE id = ?
Changes(table, id) == IF id \in DOMAIN table THEN 1 ELSE 0

\* the orders SELECT * FROM todos ORDER BY created_at DESC may return the
\* rows in: rows of equal created_at come in either order
Orderings(table) ==
  { o \in [1 .. Cardinality(DOMAIN table) -> DOMAIN table] :
      /\ \A i, j \in DOMAIN o : i # j => o[i] # o[j]
      /\ \A i, j \in DOMAIN o :
           i < j => table[o[i]].created_at.t >= table[o[j]].created_at.t }

(* ---------------------------- HTTP responses --------------------------- *)
\* the reason phrase Node sends with a status code
StatusText(status) ==
  CASE status = 200 -> "OK"
    [] status = 201 -> "Created"
    [] status = 400 -> "Bad Request"
    [] status = 404 -> "Not Found"
    [] status = 500 -> "Internal Server Error"

Response(status, body) ==
  [ status |-> status, statusText |-> StatusText(status), body |-> body ]

\* catch (err) { res.status(500).json({ error: err.message }) }
StoreError == Response(500, [error |-> "SQLITE_MISUSE: Database is closed"])

\* no response yet: the handler is suspended
NoResponse == [ status |-> 0, statusText |-> "", body |-> EmptyObj ]

\* app.get('/todos')
GetAllResponse(table, order) ==
  Response(200, [ message |-> "success",
                  data |-> [ k \in DOMAIN order |-> RowJson(table, order[k]) ] ])

\* app.get('/todos/:id')
GetOneResponse(table, id) ==
  IF id \in DOMAIN table
    THEN Response(200, [ message |-> "success", data |-> RowJson(table, id) ])
    ELSE Response(404, [ message |-> "No to-do found with that ID." ])

\* a guard that rejects only a body without a task field
MissingTaskAbsentOnly(body) == ~Has(body, "task")

\* app.post('/todos'): the 400 guard
MissingTask(body) == Falsy(Field(body, "task"))

BadRequest == Response(400, [ error |-> "Missing 'task' field in request body." ])

CreatedResponse(todo) == Response(201, [ message |-> "success", data |-> todo ])

\* app.put('/todos/:id') and app.delete('/todos/:id'): changes === 0
NotFound(id) == Response(404, [ message |-> "No to-do found with ID " \o ToString(id) ])

\* app.put('/todos/:id'): the 200 response; data is the row the re-read
\* returns, and res.json leaves out a field whose value is undefined
PutOkResponse(table, id, changes) ==
  IF id \in DOMAIN table
    THEN Response(200, [ message |-> "success", data |-> RowJson(table, id),
                         changes |-> changes ])
    ELSE Response(200, [ message |-> "success", changes |-> changes ])

\* app.delete('/todos/:id'): the 200 response
DeletedResponse(changes) ==
  Response(200, [ message |-> "deleted", changes |-> changes ])

\* res.ok of fetch
Ok(resp) == resp.status >= 200 /\ resp.status <= 299


(* ---------------------------- adapter ---------------------------------- *)
\* the characters of a text as JSON.stringify writes them inside the quotes
RECURSIVE JsonEscape(_)
JsonEscape(s) ==
  IF s = <<>> THEN <<>>
  ELSE (IF Head(s) \in {"\"", "\\"} THEN <<"\\", Head(s)>> ELSE <<Head(s)>>)
         \o JsonEscape(Tail(s))

\* JSON.stringify of a string value
JsonStringify(v) == JStr(<<"\"">> \o JsonEscape(v.v) \o <<"\"">>)

\* `todo://item/${id}`
ItemUri(id) == "todo://item/" \o ToString(id)

\* the resource_link the tools put in their content
ResourceLink(id, description) ==
  [ type |-> "resource_link", uri |-> ItemUri(id), name |-> ToString(id),
    description |-> description ]

TextContent(text) == [ type |-> "text", text |-> text ]

\* a handler that returns: the invocation succeeds with this value
Returned(value) == [ outcome |-> "ok", value |-> value ]

\* a handler that throws: the invocation fails and the host gets the message
Thrown(message) == [ outcome |-> "error", message |-> message ]

\* reading a property of undefined
TypeError == Thrown("TypeError: Cannot read properties of undefined")

\* no adapter took part: a REST client sent the request itself
NoResult == [ outcome |-> "none" ]

\* a status check that lets every response through
CheckStatusNever(resp) == Returned(resp)

\* update and delete: .then((res) => { if (res.ok) return res; ... throw })
CheckStatus(resp) ==
  IF Ok(resp) THEN Returned(resp)
  ELSE IF resp.status >= 500
    THEN Thrown("Bad response - " \o ToString(resp.status) \o " - " \o resp.statusText)
    ELSE Thrown("Bad request - " \o ToString(resp.status) \o " - " \o resp.statusText)

\* tool 'list'
ListResult(resp) ==
  IF ~Has(resp.body, "data") THEN TypeError
  ELSE LET data == resp.body.data IN
    Returned([ content |->
      << TextContent("Found " \o ToString(Len(data)) \o " items") >>
      \o [ k \in DOMAIN data |->
             ResourceLink(data[k].id.v, JsonStringify(data[k].task)) ] ])

\* tool 'get'
GetResult(id, resp) ==
  IF ~Has(resp.body, "data") THEN TypeError
  ELSE Returned([ content |->
         << TextContent("found todo item"),
            ResourceLink(id, resp.body.data.task) >> ])

\* tool 'update': the body the tool sends
UpdateToolBody(args) ==
  LET task == Field(args, "task")
      sent == IF task.t = "string" /\ Len(task.v) > 0 THEN task ELSE JNull
  IN IF Has(args, "completed")
       THEN [ task |-> sent, completed |-> args.completed ]
       ELSE [ task |-> sent ]

\* tool 'update': the result
UpdateResult(resp) ==
  IF CheckStatus(resp).outcome = "error" THEN CheckStatus(resp)
  ELSE Returned(Field(resp.body, "data"))

\* tool 'add'
AddResult(task, resp) ==
  IF ~Has(resp.body, "data") THEN TypeError
  ELSE Returned([ content |-> << ResourceLink(resp.body.data.id.v, task) >> ])

\* tool 'delete'
DeleteResult(resp) ==
  IF CheckStatus(resp).outcome = "error" THEN CheckStatus(resp)
  ELSE Returned([ content |-> << TextContent("deleted successfully") >> ])

\* resources 'all' and 'item': the parsed body, whatever the status
ResourceResult(uri, resp) ==
  Returned([ contents |-> << [ uri |-> uri, text |-> [ json |-> resp.body ] ] >> ])

\* the result of the invocation that made the request, from its response
AdapterResult(client, req, resp) ==
  CASE client = "list" -> ListResult(resp)
    [] client = "get" -> GetResult(req.id, resp)
    [] client = "update" -> UpdateResult(resp)
    [] client = "add" -> AddResult(req.body.task, resp)
    [] client = "delete" -> DeleteResult(resp)
    [] client = "all" -> ResourceResult("todo://all", resp)
    [] client = "item" -> ResourceResult(ItemUri(req.id), resp)
    [] client = "rest" -> NoResult


(* ---------------------------- the service ------------------------------ *)
Request(method, id, body) == [ method |-> method, id |-> id, body |-> body ]

\* a handler that has sent its response.  phase is "done" for a response
\* sent after the handler's first query, "updated" for a PUT suspended after
\* its UPDATE, "reread" for the response a PUT sends after its re-read
Exchange(client, req, resp) ==
  [ client |-> client, req |-> req, phase |-> "done", resp |-> resp,
    result |-> AdapterResult(client, req, resp) ]

Init ==
  /\ todos = <<>>
  /\ seq = 0
  /\ now = 0
  /\ dbOpen = TRUE
  /\ pending = {}
  /\ last = [ client |-> "rest", req |-> Request("NONE", 0, EmptyObj),
              phase |-> "done", resp |-> NoResponse, result |-> NoResult ]
  /\ assigned = {}
  /\ deleted = {}

\* GET /todos
ServeGetAll(client) ==
  /\ \E order \in Orderings(todos) :
       last' = Exchange(client, Request("GET", 0, EmptyObj),
                        IF dbOpen THEN GetAllResponse(todos, order) ELSE StoreError)
  /\ UNCHANGED <<todos, seq, now, dbOpen, pending, assigned, deleted>>

\* GET /todos/:id
ServeGetOne(client, id) ==
  /\ last' = Exchange(client, Request("GET", id, EmptyObj),
                      IF dbOpen THEN GetOneResponse(todos, id) ELSE StoreError)
  /\ UNCHANGED <<todos, seq, now, dbOpen, pending, assigned, deleted>>

\* seconds the clock has advanced since the last insert: timestamps have a
\* resolution of one second, so two rows may share one; time is counted from
\* the first insert
ClockSteps == IF seq = 0 THEN {0} ELSE {0, 1}

\* POST /todos
ServePost(client, body) ==
  LET req == Request("POST", 0, body) IN
  IF MissingTask(body) THEN
    /\ last' = Exchange(client, req, BadRequest)
    /\ UNCHANGED <<todos, seq, now, dbOpen, pending, assigned, deleted>>
  ELSE IF ~dbOpen THEN
    /\ last' = Exchange(client, req, StoreError)
    /\ UNCHANGED <<todos, seq, now, dbOpen, pending, assigned, deleted>>
  ELSE
    LET id == NextRowid(todos, seq) IN
    /\ id <= MaxSeq
    /\ \E dt \in ClockSteps :
         /\ now' = now + dt
         /\ todos' = [ i \in DOMAIN todos \cup {id} |->
                         IF i = id THEN InsertedRow(body, now') ELSE todos[i] ]
         /\ last' = Exchange(client, req, CreatedResponse(CreatedTodo(id, body, now')))
    /\ seq' = id
    /\ assigned' = assigned \cup {id}
    /\ UNCHANGED <<dbOpen, pending, deleted>>

\* PUT /todos/:id, up to the await of the re-read
ServePut(client, id, body) ==
  LET req == Request("PUT", id, body) IN
  IF ~dbOpen THEN
    /\ last' = Exchange(client, req, StoreError)
    /\ UNCHANGED <<todos, seq, now, dbOpen, pending, assigned, deleted>>
  ELSE IF Changes(todos, id) = 0 THEN
    /\ last' = Exchange(client, req, NotFound(id))
    /\ todos' = UpdateTable(todos, id, body)
    /\ UNCHANGED <<seq, now, dbOpen, pending, assigned, deleted>>
  ELSE
    LET p == [ client |-> client, id |-> id, changes |-> Changes(todos, id) ] IN
    /\ Cardinality(pending) < MaxInflight
    /\ p \notin pending
    /\ todos' = UpdateTable(todos, id, body)
    /\ pending' = pending \cup {p}
    /\ last' = [ client |-> client, req |-> req, phase |-> "updated",
                 resp |-> NoResponse, result |-> NoResult ]
    /\ UNCHANGED <<seq, now, dbOpen, assigned, deleted>>

\* PUT /todos/:id, from the re-read (getTodoById) to the response
PutReread ==
  \E p \in pending :
    /\ pending' = pending \ {p}
    /\ last' = [ Exchange(p.client, [ method |-> "PUT", id |-> p.id ],
                           IF dbOpen THEN PutOkResponse(todos, p.id, p.changes)
                                     ELSE StoreError)
                  EXCEPT !.phase = "reread" ]
    /\ UNCHANGED <<todos, seq, now, dbOpen, assigned, deleted>>

\* DELETE /todos/:id
ServeDelete(client, id) ==
  LET req == Request("DELETE", id, EmptyObj) IN
  IF ~dbOpen THEN
    /\ last' = Exchange(client, req, StoreError)
    /\ UNCHANGED <<todos, seq, now, dbOpen, pending, assigned, deleted>>
  ELSE
    /\ todos' = DeleteTable(todos, id)
    /\ deleted' = IF Changes(todos, id) = 0 THEN deleted ELSE deleted \cup {id}
    /\ last' = Exchange(client, req,
                        IF Changes(todos, id) = 0 THEN NotFound(id)
                        ELSE DeletedResponse(Changes(todos, id)))
    /\ UNCHANGED <<seq, now, dbOpen, pending, assigned>>

\* process.on('SIGINT', () => db.close()): the service keeps listening
Sigint ==
  /\ dbOpen
  /\ dbOpen' = FALSE
  /\ last' = [ client |-> "signal", req |-> Request("SIGINT", 0, EmptyObj),
               phase |-> "done", resp |-> NoResponse, result |-> NoResult ]
  /\ UNCHANGED <<todos, seq, now, pending, assigned, deleted>>

(* requests of a REST client *)
RestGetAll == ServeGetAll("rest")
RestGetOne == \E id \in ReqIds : ServeGetOne("rest", id)
RestPost == \E body \in PostBodies : ServePost("rest", body)
RestPut == \E id \in ReqIds, body \in PutBodies : ServePut("rest", id, body)
RestDelete == \E id \in ReqIds : ServeDelete("rest", id)

(* invocations of the adapter's tools and resources *)
ToolArgsUpdate ==
  { EmptyObj, [task |-> JStr(<<>>)] }
  \cup { [task |-> JStr(s)] : s \in TaskTexts }
  \cup { [completed |-> JBool(c)] : c \in BOOLEAN }

ToolList == ServeGetAll("list")
ToolGet == \E id \in ReqIds : ServeGetOne("get", id)
ToolUpdate ==
  \E id \in ReqIds, args \in ToolArgsUpdate : ServePut("update", id, UpdateToolBody(args))
ToolAdd == \E task \in TaskTexts \cup {<<>>} : ServePost("add", [task |-> JStr(task)])
ToolDelete == \E id \in ReqIds : ServeDelete("delete", id)
ResourceAll == ServeGetAll("all")
ResourceItem == \E id \in ReqIds : ServeGetOne("item", id)

Next ==
  \/ RestGetAll \/ RestGetOne \/ RestPost \/ RestPut \/ RestDelete
  \/ ToolList \/ ToolGet \/ ToolUpdate \/ ToolAdd \/ ToolDelete
  \/ ResourceAll \/ ResourceItem
  \/ PutReread \/ Sigint

Spec == Init /\ [][Next]_vars


(* the service with its connection open, serving REST clients *)
NextRest ==
  \/ RestGetAll \/ RestGetOne \/ RestPost \/ RestPut \/ RestDelete
  \/ PutReread

SpecRest == Init /\ [][NextRest]_vars

(* the adapter as the service's only client *)
NextAdapter ==
  \/ ToolList \/ ToolGet \/ ToolUpdate \/ ToolAdd \/ ToolDelete
  \/ ResourceAll \/ ResourceItem
  \/ PutReread \/ Sigint

SpecAdapter == Init /\ [][NextAdapter]_vars


(* ======================================================================= *)
(* Claims                                                                  *)
(* ======================================================================= *)

\* the step just taken inserted a row for a POST whose body holds only a task
CreatedByAdd ==
  /\ last'.req.method = "POST"
  /\ last'.resp.status = 201
  /\ DOMAIN last'.req.body = {"task"}
  /\ DOMAIN todos' # DOMAIN todos

\* C1: a create with task T and no completed field returns 201 with a new id,
\* and a get of that id, served before any update or delete of it, returns 200
\* with a task whose task field is T and whose completed field is false.
C1_AddThenGet ==
  [][ CreatedByAdd =>
        LET id == last'.resp.body.data.id.v
            got == GetOneResponse(todos', id)
        IN /\ id \notin assigned
           /\ got.status = 200
           /\ got.body.data.task = last'.req.body.task
           /\ got.body.data.completed = JBool(FALSE) ]_vars

\* C2: a PUT on an existing id changes only the fields its body supplies: a
\* task that is not supplied leaves the stored task as it was, a completed
\* that is not supplied leaves the stored completed as it was, id and
\* created_at of the row stay, and every other row stays as it was.
C2_PutChangesOnlySupplied ==
  [][ last'.phase = "updated" =>
        LET id == last'.req.id
            body == last'.req.body
        IN /\ id \in DOMAIN todos
           /\ DOMAIN todos' = DOMAIN todos
           /\ \A i \in DOMAIN todos \ {id} : todos'[i] = todos[i]
           /\ RowJson(todos', id).id = RowJson(todos, id).id
           /\ todos'[id].created_at = todos[id].created_at
           /\ (~Has(body, "task") \/ body.task = JNull)
                => todos'[id].task = todos[id].task
           /\ ~Has(body, "completed")
                => todos'[id].completed = todos[id].completed ]_vars

\* a PUT with only completed supplied has been applied to one of two rows
C2_Witness ==
  /\ last.phase = "updated"
  /\ DOMAIN last.req.body = {"completed"}
  /\ Cardinality(DOMAIN todos) >= 2
  /\ todos[last.req.id].completed = JNum(1)
  /\ todos[last.req.id].task = JStr(<<"b", "\"">>)

C4_MissingTaskRejected ==
  [][ ( /\ last'.req.method = "POST"
        /\ (~Has(last'.req.body, "task") \/ last'.req.body.task = JStr(<<>>)) )
      => /\ last'.resp.status = 400
         /\ todos' = todos
         /\ seq' = seq
         /\ assigned' = assigned ]_vars

\* a POST with an empty-string task was answered 400 while the table holds a row
C4_Witness ==
  /\ last.req.method = "POST"
  /\ Has(last.req.body, "task") /\ last.req.body.task = JStr(<<>>)
  /\ last.resp.status = 400
  /\ DOMAIN todos # {}

C6_IdsNeverReused ==
  [][ ( /\ last'.req.method = "POST"
        /\ last'.resp.status = 201 )
      => LET id == last'.resp.body.data.id.v
         IN /\ DOMAIN todos' = DOMAIN todos \cup {id}
            /\ id \notin DOMAIN todos
            /\ id \notin assigned
            /\ id \notin deleted ]_vars

\* a create was served after the row with the highest id was deleted
C6_Witness ==
  /\ last.req.method = "POST"
  /\ last.resp.status = 201
  /\ deleted # {}
  /\ Max(deleted) \notin DOMAIN todos
  /\ last.resp.body.data.id.v = Max(deleted) + 1
  /\ \A i \in DOMAIN todos : i >= last.resp.body.data.id.v

\* the adapter has the response of the request it sent
Answered(clients) ==
  /\ last.client \in clients
  /\ last.phase \in {"done", "reread"}

\* C7: whenever the store answers a tool's or a resource's request with a
\* status outside 200-299, the invocation ends as a failure, never as a
\* successful result.
C7_NoErrorDropped ==
  ( Answered({"list", "get", "add", "update", "delete", "all", "item"})
    /\ ~(last.resp.status \in 200 .. 299) )
  => last.result.outcome = "error"

\* C8: the update and delete tools throw on every response outside 200-299,
\* 'Bad response - <status> - <statusText>' from 500 up and
\* 'Bad request - <status> - <statusText>' for 400-499, and never on 200-299;
\* an update or delete of an id that matches no row fails as a 'Bad request'.
C8_StatusClassified ==
  [][ ( /\ last'.client \in {"update", "delete"}
        /\ last'.phase \in {"done", "reread"} )
      => /\ last'.resp.status \in 200 .. 299 => last'.result.outcome = "ok"
         /\ last'.resp.status = 500
              => last'.result
                   = [ outcome |-> "error",
                       message |-> "Bad response - 500 - Internal Server Error" ]
         /\ last'.resp.status = 404
              => last'.result
                   = [ outcome |-> "error",
                       message |-> "Bad request - 404 - Not Found" ]
         /\ last'.resp.status \in {200, 404, 500}
         /\ (last'.phase = "done" /\ dbOpen /\ last'.req.id \notin DOMAIN todos)
              => /\ last'.resp.status = 404
                 /\ last'.result.outcome = "error" ]_vars

\* the update tool failed as a bad request on an id that matches no row
C8_Witness ==
  /\ last.client = "update"
  /\ last.phase = "done"
  /\ last.resp.status = 404
  /\ last.result.outcome = "error"
  /\ last.req.id \notin DOMAIN todos

\* C9: for a store of N tasks the list tool returns the summary of N items
\* followed by exactly N links, one per stored task, each with the uri
\* todo://item/<id>, the id as its name and the task's text as its description.
C9_ListLinks ==
  ( Answered({"list"}) /\ last.resp.status = 200 )
  => /\ last.result.outcome = "ok"
     /\ LET content == last.result.value.content
            n == Cardinality(DOMAIN todos)
        IN /\ Len(content) = n + 1
           /\ content[1] = [ type |-> "text",
                             text |-> "Found " \o ToString(n) \o " items" ]
           /\ \A id \in DOMAIN todos :
                \E k \in 2 .. n + 1 :
                  /\ content[k].uri = "todo://item/" \o ToString(id)
                  /\ content[k].name = ToString(id)
                  /\ content[k].description = todos[id].task

\* C10: every 200 response to a PUT carries a data field holding the row with
\* that id as it stands, also when a DELETE or another PUT of the id is served
\* between the handler's UPDATE and its re-read.
C10_PutResponseCarriesRow ==
  ( last.req.method = "PUT" /\ last.resp.status = 200 )
  => /\ Has(last.resp.body, "data")
     /\ last.req.id \in DOMAIN todos
     /\ last.resp.body.data = RowJson(todos, last.req.id)

====
